---------------------------- MODULE Spec2Model ----------------------------
(***************************************************************************)
(* Model of base-linux/include/base/platform_env.h (Genode, Linux):        *)
(*   - Region / Region_map: the fixed-size region table of the local       *)
(*     region manager (add_region, region, lookup, remove_region);         *)
(*   - Expanding_ram_session_client::alloc: the RAM-session client that    *)
(*     upgrades its quota when the remote session runs out of meta data.   *)
(*   - Rm_session_mmap: the region-manager session (attach, detach,        *)
(*     nesting as managed dataspace, destructor, lock);                    *)
(*   - Platform_env::Local_parent: the interceptor of parent requests.     *)
(* Each component has its own next-state relation and specification over   *)
(* the module's variables.                                                 *)
(***************************************************************************)
EXTENDS Integers, Sequences, FiniteSets, TLC

(***************************************************************************)
(* Bounds of the model.                                                    *)
(***************************************************************************)
\* Largest value of addr_t / size_t; arithmetic on them wraps modulo MaxAddr + 1.
MaxAddr == 4
\* Largest _size of a Region handed to add_region.
MaxSize == 2
\* Number of slots of Region_map::_map (MAX_REGIONS, 4096 in the source).
MAX_REGIONS == 2

\* Dataspace capabilities of candidate regions; InvalidCap is the
\* default-constructed Dataspace_capability of Region().
DsCaps == {"ds1"}
InvalidCap == "invalid"
\* Offsets of candidate regions.
Offsets == {0}

\* Longest prefix of a call's remote requests that is recorded in log.
MaxLog == 5
\* Largest size passed to Expanding_ram_session_client::alloc.
MaxAllocSize == 1
\* Threads of the process that call alloc on the one Env::RAM session client.
Threads == {"t1", "t2"}
\* Capabilities the remote RAM session hands out.
RamCaps == {"cap1", "cap2"}

\* Service names of session requests; RmService is the one Local_parent
\* implements locally.
RmService == "RM"
ServiceNames == {"RM", "Env::ram_session", "Env::cpu_session"}
\* Session arguments of session requests.
SessionArgs == {"", "size=1", "size=2"}
\* Capabilities of locally created RM sessions and of sessions of the parent.
LocalCaps == {"rm1", "rm2"}
ParentCaps == {"p1", "p2"}
\* Errors the real parent may answer a session request with.
ParentErrors == {"Service_denied", "Quota_exceeded"}
\* Capability of the nested Rm_session_mmap when used as dataspace.
SubCap == "sub_rm"
\* Most attachments of the nested session that are followed.
MaxAttaches == 2

VARIABLES
    map,        \* Region_map::_map : slot -> Region
    ret,        \* operation last performed on the Region_map and what it returned
    pc,         \* per thread: position inside Expanding_ram_session_client::alloc
    try_again,  \* per thread: the local 'bool try_again' of its alloc call
    args,       \* per thread: the (size, cached) arguments of its alloc call
    log,        \* per thread: remote requests of its alloc call, in order
    result,     \* per thread: what its alloc call handed to the caller
    router,     \* Local_parent: request being dispatched and its reply
    parent,     \* what the real parent received during the current request
    sessions,   \* Rm_session_mmap objects created by Local_parent::session
    sub,        \* the nested Rm_session_mmap (managed dataspace)
    rm,         \* last operation on the region-manager sessions and its result
    lock,       \* Rm_session_mmap::_lock of the root session
    conc        \* per thread: attach/detach call in progress on the root session

rmapVars == <<map, ret>>
ramVars == <<pc, try_again, args, log, result>>
routerVars == <<router, parent, sessions>>
nestVars == <<sub, rm>>
concVars == <<lock, conc>>
extVars == <<routerVars, nestVars, concVars>>
vars == <<map, ret, pc, try_again, args, log, result,
          router, parent, sessions, sub, rm, lock, conc>>

(***************************************************************************)
(* Region                                                                  *)
(***************************************************************************)
Addrs == 0..MaxAddr
Slots == 0..(MAX_REGIONS - 1)

\* addr_t / size_t arithmetic is unsigned and wraps.
Wrap(n) == n % (MaxAddr + 1)

\* Region(): _start(0), _offset(0), _size(0), default-constructed _ds
EmptyRegion == [start |-> 0, offset |-> 0, ds |-> InvalidCap, size |-> 0]

\* Region(start, offset, ds, size) for every argument the model draws
Regions == [start : Addrs, offset : Offsets, ds : DsCaps, size : 0..MaxSize]

\* addr_t _end() const { return _start + _size; }
_end(r) == Wrap(r.start + r.size)

\* bool used() const { return _size > 0; }
used(r) == r.size > 0

\* bool intersects(Region const &r) const
intersects(self, r) == (r.start < _end(self)) /\ (self.start < _end(r))

(***************************************************************************)
(* Region_map                                                              *)
(***************************************************************************)
Min(S) == CHOOSE x \in S : \A y \in S : x <= y

\* bool _id_valid(int id) const
_id_valid(id) == id >= 0 /\ id < MAX_REGIONS

\* add_region with the slot search stopping one slot early (i < MAX_REGIONS - 1).
add_region_short_scan(m, region) ==
    LET free == {i \in Slots : ~used(m[i]) /\ i < MAX_REGIONS - 1}
    IN  IF \E i \in Slots : intersects(m[i], region)
        THEN [id |-> -2, map |-> m]
        ELSE IF free = {}
        THEN [id |-> -1, map |-> m]
        ELSE [id |-> Min(free), map |-> [m EXCEPT ![Min(free)] = region]]

\* int add_region(Region const &region): the returned id (or -1, -2) and
\* the table after the call.
add_region(m, region) ==
    LET free == {i \in Slots : ~used(m[i])}
    IN  IF \E i \in Slots : intersects(m[i], region)
        THEN [id |-> -2, map |-> m]
        ELSE IF free = {}
        THEN [id |-> -1, map |-> m]
        ELSE [id |-> Min(free), map |-> [m EXCEPT ![Min(free)] = region]]

\* Region region(int id) const
region(m, id) == IF _id_valid(id) THEN m[id] ELSE EmptyRegion

\* Region lookup(addr_t start): the first slot whose start equals the argument
lookup(m, start) ==
    LET hit == {i \in Slots : m[i].start = start}
    IN  IF hit = {} THEN EmptyRegion ELSE m[Min(hit)]

\* remove_region comparing with <= instead of ==.
remove_region_le(m, start) ==
    [i \in Slots |-> IF m[i].start <= start THEN EmptyRegion ELSE m[i]]

\* void remove_region(addr_t start): every slot whose start equals the argument
remove_region(m, start) ==
    [i \in Slots |-> IF m[i].start = start THEN EmptyRegion ELSE m[i]]

NoRet == [op |-> "none", id |-> 0, region |-> EmptyRegion]

NoArgs == [size |-> 0, cached |-> FALSE]
NoResult == [kind |-> "none", cap |-> InvalidCap, what |-> "none"]

InitRam ==
    /\ pc = [t \in Threads |-> "idle"]
    /\ try_again = [t \in Threads |-> FALSE]
    /\ args = [t \in Threads |-> NoArgs]
    /\ log = [t \in Threads |-> <<>>]
    /\ result = [t \in Threads |-> NoResult]

InitRmap ==
    /\ map = [i \in Slots |-> EmptyRegion]
    /\ ret = NoRet

(***************************************************************************)
(* Initial values of Local_parent, the nested session and the root lock.   *)
(***************************************************************************)
NoRequest == [state |-> "idle", op |-> "none", name |-> "", args |-> "",
              cap |-> InvalidCap, reply |-> NoResult]
NoParentCall == [calls |-> 0, op |-> "none", name |-> "", args |-> "",
                 cap |-> InvalidCap, reply |-> NoResult]

\* Local_parent(parent_cap): nothing dispatched, no local session.
InitRouter ==
    /\ router = NoRequest
    /\ parent = NoParentCall
    /\ sessions = {}

\* Results of attach that are no address, and values of the record of the
\* nested session's reservation before an operation.
AttachError == -1
NeverAttached == -2
NotReserved == -1
EmptyTable == [i \in Slots |-> EmptyRegion]
NoSub == [alive |-> FALSE, size |-> 0, base |-> 0, rmap |-> EmptyTable, attaches |-> 0]
NoRm == [op |-> "none", addr |-> 0, off |-> 0, pre |-> NeverAttached, detached |-> <<>>]

\* No nested session exists.
InitNest ==
    /\ sub = NoSub
    /\ rm = NoRm

IdleCall == [pc |-> "idle", op |-> "none", region |-> EmptyRegion, id |-> 0]

\* Lock(): unlocked; no thread inside attach or detach.
InitConc ==
    /\ lock = "free"
    /\ conc = [t \in Threads |-> IdleCall]

Init == InitRmap /\ InitRam /\ InitRouter /\ InitNest /\ InitConc

AddRegion(r) ==
    /\ map' = add_region(map, r).map
    /\ ret' = [op |-> "add_region", id |-> add_region(map, r).id, region |-> EmptyRegion]
    /\ UNCHANGED <<ramVars, extVars>>

RemoveRegion(a) ==
    /\ map' = remove_region(map, a)
    /\ ret' = [op |-> "remove_region", id |-> 0, region |-> EmptyRegion]
    /\ UNCHANGED <<ramVars, extVars>>

Lookup(a) ==
    /\ map' = map
    /\ ret' = [op |-> "lookup", id |-> 0, region |-> lookup(map, a)]
    /\ UNCHANGED <<ramVars, extVars>>

GetRegion(id) ==
    /\ map' = map
    /\ ret' = [op |-> "region", id |-> 0, region |-> region(map, id)]
    /\ UNCHANGED <<ramVars, extVars>>

NextRmap ==
    \/ \E r \in Regions : AddRegion(r)
    \/ \E a \in Addrs : RemoveRegion(a)
    \/ \E a \in Addrs : Lookup(a)
    \/ \E id \in -1..MAX_REGIONS : GetRegion(id)

RmapSpec == Init /\ [][NextRmap]_vars

(***************************************************************************)
(* Expanding_ram_session_client                                            *)
(***************************************************************************)
\* Replies of the remote Ram_session_client::alloc: a capability, the
\* Out_of_metadata exception, or another exception of the RAM session.
OutOfMetadata == "Out_of_metadata"
QuotaExceeded == "Quota_exceeded"

AllocEvent(reply, cap) == [ev |-> "alloc", reply |-> reply, cap |-> cap]
UpgradeEvent == [ev |-> "upgrade", reply |-> "ok", cap |-> InvalidCap]

\* The log keeps the first MaxLog requests of a call.
Record(l, e) == IF Len(l) < MaxLog THEN Append(l, e) ELSE l

\* A thread enters alloc(size, cached); 'bool try_again;' is not initialised.
Call(t) ==
    /\ pc[t] = "idle"
    /\ \E size \in 1..MaxAllocSize, cached \in BOOLEAN, garbage \in BOOLEAN :
           /\ args' = [args EXCEPT ![t] = [size |-> size, cached |-> cached]]
           /\ try_again' = [try_again EXCEPT ![t] = garbage]
    /\ pc' = [pc EXCEPT ![t] = "loop_top"]
    /\ log' = [log EXCEPT ![t] = <<>>]
    /\ result' = [result EXCEPT ![t] = NoResult]
    /\ UNCHANGED <<rmapVars, extVars>>

\* LoopTop with try_again shared by all calls instead of local to each.
LoopTop_shared(t) ==
    /\ pc[t] = "loop_top"
    /\ try_again' = [u \in Threads |-> FALSE]
    /\ pc' = [pc EXCEPT ![t] = "try"]
    /\ UNCHANGED <<args, log, result, rmapVars, extVars>>

\* do { try_again = false;
LoopTop(t) ==
    /\ pc[t] = "loop_top"
    /\ try_again' = [try_again EXCEPT ![t] = FALSE]
    /\ pc' = [pc EXCEPT ![t] = "try"]
    /\ UNCHANGED <<args, log, result, rmapVars, extVars>>

\* TryAlloc with a catch clause that catches every exception.
TryAlloc_catch_all(t) ==
    /\ pc[t] = "try"
    /\ \/ \E c \in RamCaps :
              /\ log' = [log EXCEPT ![t] = Record(@, AllocEvent("ok", c))]
              /\ result' = [result EXCEPT ![t] = [kind |-> "cap", cap |-> c, what |-> "none"]]
              /\ pc' = [pc EXCEPT ![t] = "done"]
       \/ \E x \in {OutOfMetadata, QuotaExceeded} :
              /\ log' = [log EXCEPT ![t] = Record(@, AllocEvent(x, InvalidCap))]
              /\ pc' = [pc EXCEPT ![t] = "catch"]
              /\ UNCHANGED result
    /\ UNCHANGED <<try_again, args, rmapVars, extVars>>

\* try { return Ram_session_client::alloc(size, cached); }
\* catch (Ram_session::Out_of_metadata) { ... }: a capability is returned,
\* Out_of_metadata enters the handler, any other exception leaves alloc.
TryAlloc(t) ==
    /\ pc[t] = "try"
    /\ \/ \E c \in RamCaps :
              /\ log' = [log EXCEPT ![t] = Record(@, AllocEvent("ok", c))]
              /\ result' = [result EXCEPT ![t] = [kind |-> "cap", cap |-> c, what |-> "none"]]
              /\ pc' = [pc EXCEPT ![t] = "done"]
       \/ /\ log' = [log EXCEPT ![t] = Record(@, AllocEvent(OutOfMetadata, InvalidCap))]
          /\ pc' = [pc EXCEPT ![t] = "catch"]
          /\ UNCHANGED result
       \/ /\ log' = [log EXCEPT ![t] = Record(@, AllocEvent(QuotaExceeded, InvalidCap))]
          /\ result' = [result EXCEPT ![t] =
                           [kind |-> "exception", cap |-> InvalidCap, what |-> QuotaExceeded]]
          /\ pc' = [pc EXCEPT ![t] = "done"]
    /\ UNCHANGED <<try_again, args, rmapVars, extVars>>

\* return Ram_dataspace_capability();  (after the loop)
ReturnInvalid(t) ==
    /\ result' = [result EXCEPT ![t] = [kind |-> "cap", cap |-> InvalidCap, what |-> "none"]]
    /\ pc' = [pc EXCEPT ![t] = "done"]

\* if (try_again) break;   -- give up if the error occurred a second time
Catch(t) ==
    /\ pc[t] = "catch"
    /\ IF try_again[t]
       THEN ReturnInvalid(t)
       ELSE pc' = [pc EXCEPT ![t] = "upgrade"] /\ UNCHANGED result
    /\ UNCHANGED <<try_again, args, log, rmapVars, extVars>>

\* Upgrade that sets try_again without asking the parent.
Upgrade_no_request(t) ==
    /\ pc[t] = "upgrade"
    /\ try_again' = [try_again EXCEPT ![t] = TRUE]
    /\ pc' = [pc EXCEPT ![t] = "while"]
    /\ UNCHANGED <<args, log, result, rmapVars, extVars>>

\* Upgrade that asks the parent but does not set try_again.
Upgrade_no_retry(t) ==
    /\ pc[t] = "upgrade"
    /\ log' = [log EXCEPT ![t] = Record(@, UpgradeEvent)]
    /\ pc' = [pc EXCEPT ![t] = "while"]
    /\ UNCHANGED <<try_again, args, result, rmapVars, extVars>>

\* env()->parent()->upgrade(_cap, "ram_quota=8K"); try_again = true;
Upgrade(t) ==
    /\ pc[t] = "upgrade"
    /\ log' = [log EXCEPT ![t] = Record(@, UpgradeEvent)]
    /\ try_again' = [try_again EXCEPT ![t] = TRUE]
    /\ pc' = [pc EXCEPT ![t] = "while"]
    /\ UNCHANGED <<args, result, rmapVars, extVars>>

\* } while (try_again);
While(t) ==
    /\ pc[t] = "while"
    /\ IF try_again[t]
       THEN pc' = [pc EXCEPT ![t] = "loop_top"] /\ UNCHANGED result
       ELSE ReturnInvalid(t)
    /\ UNCHANGED <<try_again, args, log, rmapVars, extVars>>

\* The caller takes the result; the call's frame is gone.
Return(t) ==
    /\ pc[t] = "done"
    /\ pc' = [pc EXCEPT ![t] = "idle"]
    /\ try_again' = [try_again EXCEPT ![t] = FALSE]
    /\ args' = [args EXCEPT ![t] = NoArgs]
    /\ log' = [log EXCEPT ![t] = <<>>]
    /\ result' = [result EXCEPT ![t] = NoResult]
    /\ UNCHANGED <<rmapVars, extVars>>

\* The steps of one alloc call between its entry and its return.
AllocStep(t) == LoopTop(t) \/ TryAlloc(t) \/ Catch(t) \/ Upgrade(t) \/ While(t)

NextRam == \E t \in Threads : Call(t) \/ AllocStep(t) \/ Return(t)

RamSpec == Init /\ [][NextRam]_vars

\* Every remote call and every upgrade returns, and every thread inside
\* alloc keeps running.
RamFairSpec == Init /\ [][NextRam]_vars /\ \A t \in Threads : WF_vars(AllocStep(t))

(***************************************************************************)
(* Platform_env::Local_parent                                              *)
(***************************************************************************)
\* Value of the "size" argument of a session request (default: whole space).
ArgSize(a) ==
    CASE a = "size=1" -> 1
      [] a = "size=2" -> 2
      [] OTHER -> MaxAddr
CapReply(c) == [kind |-> "cap", cap |-> c, what |-> "none"]
ErrorReply(w) == [kind |-> "exception", cap |-> InvalidCap, what |-> w]
ParentReplies == {CapReply(c) : c \in ParentCaps} \cup {ErrorReply(w) : w \in ParentErrors}
OpenLocal == {s.cap : s \in sessions}

\* Local_parent::session(service_name, args) is called.
SessionRequest(name, a) ==
    /\ router.state = "idle"
    /\ name = RmService => OpenLocal # LocalCaps
    /\ router' = [state |-> "dispatching", op |-> "session", name |-> name,
                  args |-> a, cap |-> InvalidCap, reply |-> NoResult]
    /\ parent' = NoParentCall
    /\ UNCHANGED <<sessions, rmapVars, ramVars, nestVars, concVars>>

\* The RM service: a new Rm_session_mmap(true, size) is created locally.
SessionLocal ==
    /\ router.state = "dispatching" /\ router.op = "session"
    /\ router.name = RmService
    /\ LET c == CHOOSE c \in LocalCaps : c \notin OpenLocal
       IN  /\ sessions' = sessions \cup
                  {[cap |-> c, sub_rm |-> TRUE, size |-> ArgSize(router.args)]}
           /\ router' = [router EXCEPT !.state = "idle", !.reply = CapReply(c)]
    /\ UNCHANGED <<parent, rmapVars, ramVars, nestVars, concVars>>

\* SessionForward that passes empty session arguments to the parent.
SessionForward_no_args(r) ==
    /\ router.state = "dispatching" /\ router.op = "session"
    /\ router.name # RmService
    /\ parent' = [calls |-> parent.calls + 1, op |-> "session", name |-> router.name,
                  args |-> "", cap |-> InvalidCap, reply |-> r]
    /\ router' = [router EXCEPT !.state = "idle", !.reply = r]
    /\ UNCHANGED <<sessions, rmapVars, ramVars, nestVars, concVars>>

\* Any other service: Parent_client::session(service_name, args); the parent
\* answers r, which is handed to the caller.
SessionForward(r) ==
    /\ router.state = "dispatching" /\ router.op = "session"
    /\ router.name # RmService
    /\ parent' = [calls |-> parent.calls + 1, op |-> "session", name |-> router.name,
                  args |-> router.args, cap |-> InvalidCap, reply |-> r]
    /\ router' = [router EXCEPT !.state = "idle", !.reply = r]
    /\ UNCHANGED <<sessions, rmapVars, ramVars, nestVars, concVars>>

\* Local_parent::close(session) is called.
CloseRequest(c) ==
    /\ router.state = "idle"
    /\ router' = [state |-> "dispatching", op |-> "close", name |-> "",
                  args |-> "", cap |-> c, reply |-> NoResult]
    /\ parent' = NoParentCall
    /\ UNCHANGED <<sessions, rmapVars, ramVars, nestVars, concVars>>

\* The capability refers to a local Rm_session_mmap: it is destroyed locally.
CloseLocal ==
    /\ router.state = "dispatching" /\ router.op = "close"
    /\ router.cap \in OpenLocal
    /\ sessions' = {s \in sessions : s.cap # router.cap}
    /\ router' = [router EXCEPT !.state = "idle"]
    /\ UNCHANGED <<parent, rmapVars, ramVars, nestVars, concVars>>

\* Any other capability: Parent_client::close(session).
CloseForward ==
    /\ router.state = "dispatching" /\ router.op = "close"
    /\ router.cap \notin OpenLocal
    /\ parent' = [calls |-> parent.calls + 1, op |-> "close", name |-> "",
                  args |-> "", cap |-> router.cap, reply |-> NoResult]
    /\ router' = [router EXCEPT !.state = "idle"]
    /\ UNCHANGED <<sessions, rmapVars, ramVars, nestVars, concVars>>

NextRouter ==
    \/ \E name \in ServiceNames, a \in SessionArgs : SessionRequest(name, a)
    \/ SessionLocal
    \/ \E r \in ParentReplies : SessionForward(r)
    \/ \E c \in LocalCaps \cup ParentCaps : CloseRequest(c)
    \/ CloseLocal
    \/ CloseForward

RouterSpec == Init /\ [][NextRouter]_vars

(***************************************************************************)
(* Rm_session_mmap: the root session of the environment and one nested     *)
(* session (managed dataspace).  map is the root's _rmap, sub.rmap the     *)
(* nested session's.                                                       *)
(***************************************************************************)
\* bool _is_attached() const { return _base > 0; }
_is_attached(base) == base > 0

\* ~Rm_session_mmap(): the addresses it hands to env()->rm_session()->detach.
destructor_detaches(sub_rm, base) ==
    IF sub_rm /\ _is_attached(base) THEN <<base>> ELSE <<>>

\* Addresses of the host address space covered by the regions of m.
Mapped(m) == UNION {m[i].start .. (m[i].start + m[i].size - 1) : i \in Slots}
\* The host can place a mapping of the given size at a of its own choice.
HostFree(m, a, size) ==
    /\ a >= 1
    /\ a + size <= MaxAddr + 1
    /\ (a .. (a + size - 1)) \cap Mapped(m) = {}
\* Address arguments of an attach: the fixed address, or the host's choice
\* (0 stands for a host that finds no room).
AttachAddrs(m, size, fixed) ==
    IF fixed THEN {a \in Addrs : a + size <= MaxAddr + 1}
    ELSE IF \E a \in Addrs : HostFree(m, a, size)
         THEN {a \in Addrs : HostFree(m, a, size)}
         ELSE {0}

\* attach on the root session: map at a, then insert Region(a, 0, ds, size).
attach_root(m, ds, size, fixed, a) ==
    LET res == add_region(m, [start |-> a, offset |-> 0, ds |-> ds, size |-> size])
    IN  IF (~fixed /\ ~HostFree(m, a, size)) \/ res.id < 0
        THEN [addr |-> AttachError, map |-> m]
        ELSE [addr |-> a, map |-> res.map]

\* detach: look the region up, return if it is unused, else remove it.
detach(m, a) == IF used(lookup(m, a)) THEN remove_region(m, a) ELSE m

\* Slots of the root table that hold the nested session.
SubRegions(m) == {i \in Slots : used(m[i]) /\ m[i].ds = SubCap}
\* Where the nested session is reserved in the root before an operation.
Reservation(m, s) ==
    IF s.attaches = 0 THEN NeverAttached
    ELSE IF Cardinality(SubRegions(m)) = 1
         THEN m[CHOOSE i \in SubRegions(m) : TRUE].start
         ELSE NotReserved
RmResult(op, addr, off, pre, detached) ==
    [op |-> op, addr |-> addr, off |-> off, pre |-> pre, detached |-> detached]

\* Rm_session_mmap(true, size): a nested session is created.
CreateSub(c) ==
    /\ ~sub.alive
    /\ sub' = [alive |-> TRUE, size |-> c, base |-> 0, rmap |-> EmptyTable,
               attaches |-> 0]
    /\ rm' = RmResult("create", 0, 0, NeverAttached, <<>>)
    /\ UNCHANGED <<map, ret, ramVars, routerVars, concVars>>

\* Root attach of a plain dataspace of size k.
RootAttachDs(fixed, a, k) ==
    /\ a \in AttachAddrs(map, k, fixed)
    /\ LET res == attach_root(map, CHOOSE d \in DsCaps : TRUE, k, fixed, a)
       IN  /\ map' = res.map
           /\ rm' = RmResult("attach", res.addr, 0, NeverAttached, <<>>)
    /\ UNCHANGED <<ret, sub, ramVars, routerVars, concVars>>

\* Root attach of the nested session: refused if it is attached already,
\* else reserved at a and recorded in _base.
RootAttachSub(fixed, a) ==
    /\ sub.alive
    /\ sub.attaches < MaxAttaches
    /\ a \in AttachAddrs(map, sub.size, fixed)
    /\ LET res == IF _is_attached(sub.base)
                  THEN [addr |-> AttachError, map |-> map]
                  ELSE attach_root(map, SubCap, sub.size, fixed, a)
       IN  /\ map' = res.map
           /\ sub' = IF res.addr = AttachError THEN sub
                     ELSE [sub EXCEPT !.base = res.addr, !.attaches = @ + 1]
           /\ rm' = RmResult("attach_sub", res.addr, 0, NeverAttached, <<>>)
    /\ UNCHANGED <<ret, ramVars, routerVars, concVars>>

\* Root detach.
RootDetach(a) ==
    /\ map' = detach(map, a)
    /\ rm' = RmResult("detach", 0, 0, NeverAttached, <<>>)
    /\ UNCHANGED <<ret, sub, ramVars, routerVars, concVars>>

\* attach on the nested session of a dataspace of size k at local offset o:
\* a session that is not attached is first attached to the root at the
\* host's choice b; then Region(o, 0, ds, k) is inserted into its own table
\* and _base + o is returned.
SubAttach(o, k, b) ==
    /\ sub.alive
    /\ o + k <= sub.size
    /\ LET trigger == ~_is_attached(sub.base)
           outer == IF trigger
                    THEN attach_root(map, SubCap, sub.size, FALSE, b)
                    ELSE [addr |-> sub.base, map |-> map]
           inner == add_region(sub.rmap, [start |-> o, offset |-> 0,
                                          ds |-> CHOOSE d \in DsCaps : TRUE,
                                          size |-> k])
       IN  /\ trigger => sub.attaches < MaxAttaches
           /\ b \in (IF trigger THEN AttachAddrs(map, sub.size, FALSE) ELSE {0})
           /\ map' = outer.map
           /\ IF outer.addr = AttachError
              THEN /\ sub' = sub
                   /\ rm' = RmResult("sub_attach", AttachError, o,
                                     Reservation(map, sub), <<>>)
              ELSE /\ sub' = [sub EXCEPT
                                 !.base = outer.addr,
                                 !.attaches = IF trigger THEN @ + 1 ELSE @,
                                 !.rmap = inner.map]
                   /\ rm' = RmResult("sub_attach",
                                     IF inner.id < 0 THEN AttachError
                                     ELSE Wrap(outer.addr + o),
                                     o, Reservation(map, sub), <<>>)
    /\ UNCHANGED <<ret, ramVars, routerVars, concVars>>

\* detach on the nested session.
SubDetach(o) ==
    /\ sub.alive
    /\ sub' = [sub EXCEPT !.rmap = detach(@, o)]
    /\ rm' = RmResult("sub_detach", 0, 0, NeverAttached, <<>>)
    /\ UNCHANGED <<map, ret, ramVars, routerVars, concVars>>

\* ~Rm_session_mmap() of the nested session.
DestroySub ==
    /\ sub.alive
    /\ LET d == destructor_detaches(TRUE, sub.base)
       IN  /\ map' = IF d = <<>> THEN map ELSE detach(map, d[1])
           /\ rm' = RmResult("destroy", 0, 0, Reservation(map, sub), d)
    /\ sub' = NoSub
    /\ UNCHANGED <<ret, ramVars, routerVars, concVars>>

NextNest ==
    \/ \E c \in 1..MaxSize : CreateSub(c)
    \/ \E fixed \in BOOLEAN, a \in Addrs, k \in 1..MaxSize : RootAttachDs(fixed, a, k)
    \/ \E fixed \in BOOLEAN, a \in Addrs : RootAttachSub(fixed, a)
    \/ \E a \in Addrs : RootDetach(a)
    \/ \E o \in Addrs, k \in 1..MaxSize, b \in Addrs : SubAttach(o, k, b)
    \/ \E o \in Addrs : SubDetach(o)
    \/ DestroySub

NestSpec == Init /\ [][NextNest]_vars

(***************************************************************************)
(* Rm_session_mmap: attach and detach on the root session called by        *)
(* several threads; _lock protects _rmap.                                  *)
(***************************************************************************)
\* Regions of attach calls: size > 0, inside the address space.
AttachRegions == {r \in Regions : used(r) /\ r.start + r.size <= MaxAddr + 1}
InCall(t, next_pc) == [conc EXCEPT ![t].pc = next_pc]

\* attach(ds, size, offset, use_local_addr = true, local_addr) is called.
AttachCall(t, r) ==
    /\ conc[t].pc = "idle"
    /\ conc' = [conc EXCEPT ![t] = [pc |-> "map", op |-> "attach", region |-> r, id |-> 0]]
    /\ UNCHANGED <<lock, rmapVars, ramVars, routerVars, nestVars>>

\* The host mapping is made, before the lock is taken.
HostMap(t) ==
    /\ conc[t].pc = "map"
    /\ conc' = InCall(t, "lock")
    /\ UNCHANGED <<lock, rmapVars, ramVars, routerVars, nestVars>>

\* detach(local_addr) is called.
DetachCall(t, a) ==
    /\ conc[t].pc = "idle"
    /\ conc' = [conc EXCEPT ![t] = [pc |-> "lock", op |-> "detach",
                                    region |-> [EmptyRegion EXCEPT !.start = a],
                                    id |-> 0]]
    /\ UNCHANGED <<lock, rmapVars, ramVars, routerVars, nestVars>>

\* _lock.lock()
LockAcquire(t) ==
    /\ conc[t].pc = "lock"
    /\ lock = "free"
    /\ lock' = t
    /\ conc' = InCall(t, "scan")
    /\ UNCHANGED <<rmapVars, ramVars, routerVars, nestVars>>

\* The scans of add_region (conflict, then free slot), resp. lookup.
TableScan(t) ==
    /\ conc[t].pc = "scan"
    /\ conc' = [conc EXCEPT
                   ![t].pc = "store",
                   ![t].id = IF conc[t].op = "attach"
                             THEN add_region(map, conc[t].region).id
                             ELSE IF used(lookup(map, conc[t].region.start))
                                  THEN 0 ELSE -1]
    /\ UNCHANGED <<lock, rmapVars, ramVars, routerVars, nestVars>>

\* _map[i] = region, resp. remove_region.
TableStore(t) ==
    /\ conc[t].pc = "store"
    /\ map' = IF conc[t].id < 0 THEN map
              ELSE IF conc[t].op = "attach"
                   THEN [map EXCEPT ![conc[t].id] = conc[t].region]
                   ELSE remove_region(map, conc[t].region.start)
    /\ conc' = InCall(t, "unlock")
    /\ UNCHANGED <<lock, ret, ramVars, routerVars, nestVars>>

\* _lock.unlock()
LockRelease(t) ==
    /\ conc[t].pc = "unlock"
    /\ lock' = "free"
    /\ conc' = InCall(t, "done")
    /\ UNCHANGED <<rmapVars, ramVars, routerVars, nestVars>>

\* attach / detach returns to its caller.
CallReturn(t) ==
    /\ conc[t].pc = "done"
    /\ conc' = [conc EXCEPT ![t] = IdleCall]
    /\ UNCHANGED <<lock, rmapVars, ramVars, routerVars, nestVars>>

NextConc ==
    \E t \in Threads :
        \/ \E r \in AttachRegions : AttachCall(t, r)
        \/ HostMap(t)
        \/ \E a \in Addrs : DetachCall(t, a)
        \/ LockAcquire(t)
        \/ TableScan(t)
        \/ TableStore(t)
        \/ LockRelease(t)
        \/ CallReturn(t)

ConcSpec == Init /\ [][NextConc]_vars

\* The whole environment.
Next == NextRmap \/ NextRam \/ NextRouter \/ NextNest \/ NextConc
Spec == Init /\ [][Next]_vars

(***************************************************************************)
(* Properties of the region table                                          *)
(***************************************************************************)
\* The bytes [start, start + size) a region covers.
Bytes(r) == r.start .. (r.start + r.size - 1)
RangesIntersect(a, b) == Bytes(a) \cap Bytes(b) # {}
Occupied(m) == {i \in Slots : used(m[i])}
OccupiedRegions(m) == {m[i] : i \in Occupied(m)}
\* Every unused slot holds Region(): no region of size 0 was stored.
NoStaleSlot(m) == \A i \in Slots : ~used(m[i]) => m[i] = EmptyRegion

\* C1: after any sequence of add_region / remove_region from the empty table,
\* the byte ranges of every two distinct occupied slots do not intersect.
C1_NonOverlap ==
    \A i, j \in Slots :
        (i # j /\ used(map[i]) /\ used(map[j])) => ~RangesIntersect(map[i], map[j])

\* C6: add_region of a candidate whose byte range intersects that of an occupied
\* region returns -2 and leaves every slot as it was.
C6_ConflictRejected ==
    [][\A r \in Regions :
          (AddRegion(r) /\ \E i \in Slots : used(map[i]) /\ RangesIntersect(map[i], r))
              => (ret'.id = -2 /\ map' = map)]_vars

\* C7: on a reachable table that holds only regions of size > 0, add_region of
\* a region of size > 0 that intersects no occupied region succeeds while a
\* slot is free (so N inserts from the empty table succeed), and with all
\* MAX_REGIONS slots occupied it returns -1 and leaves the table unchanged.
C7_CapacityBoundary ==
    \A r \in Regions :
        (/\ used(r)
         /\ NoStaleSlot(map)
         /\ \A i \in Slots : used(map[i]) => ~RangesIntersect(map[i], r))
            => IF Occupied(map) # Slots
               THEN /\ add_region(map, r).id \in Slots \ Occupied(map)
                    /\ add_region(map, r).map = [map EXCEPT ![add_region(map, r).id] = r]
               ELSE /\ add_region(map, r).id = -1
                    /\ add_region(map, r).map = map

\* C7 witness: the table is full of pairwise disjoint regions and the last
\* add_region was refused with -1.
C7_Witness ==
    /\ ret.op = "add_region"
    /\ ret.id = -1
    /\ Occupied(map) = Slots
    /\ \A i, j \in Slots : i # j => ~RangesIntersect(map[i], map[j])

\* C8: a successful add_region(r) that returned id i makes region(i) = r, and
\* region(i) keeps returning r over every later add_region, lookup, region and
\* remove_region of another start address.
C8_SlotIdStable ==
    [][/\ \A r \in Regions :
              (AddRegion(r) /\ ret'.id >= 0) => region(map', ret'.id) = r
       /\ \A i \in Slots :
              (/\ map[i] # EmptyRegion
               /\ ~(ret'.op = "remove_region" /\ RemoveRegion(map[i].start)))
                  => region(map', i) = map[i]]_vars

\* C9: remove_region of an address at which no occupied region starts leaves
\* every occupied region in its slot and occupies no slot, and a second
\* remove_region of the same address changes nothing.
C9_IdempotentDetach ==
    [][\A a \in Addrs :
          (ret'.op = "remove_region" /\ RemoveRegion(a)) =>
              /\ (~ \E i \in Slots : used(map[i]) /\ map[i].start = a)
                     => /\ \A i \in Slots : used(map[i]) => map'[i] = map[i]
                        /\ Occupied(map') = Occupied(map)
              /\ remove_region(map', a) = map']_vars

\* C9 witness: a remove_region was performed and every slot is still occupied,
\* so no occupied region started at the removed address.
C9_Witness ==
    /\ ret.op = "remove_region"
    /\ Occupied(map) = Slots

\* C10: from any reachable table, for a region r = (X, S) of size > 0 whose
\* add_region succeeds: after add_region(r) and remove_region(X) no occupied
\* region starts at X, the occupied regions are those before the insertion, and
\* add_region(r) succeeds again.
C10_DetachFreesRange ==
    \A r \in Regions :
        (used(r) /\ add_region(map, r).id >= 0) =>
            LET m1 == add_region(map, r).map
                m2 == remove_region(m1, r.start)
            IN  /\ \A i \in Slots : ~(used(m2[i]) /\ m2[i].start = r.start)
                /\ OccupiedRegions(m2) = OccupiedRegions(map)
                /\ add_region(m2, r).id >= 0

\* C15: on a reachable table that holds only regions of size > 0, lookup(a)
\* returns the occupied region starting at a whenever one exists (for every a,
\* including 0), and an empty Region only when none does.
C15_LookupFindsOccupied ==
    NoStaleSlot(map) =>
        \A a \in Addrs :
            (\E i \in Slots : used(map[i]) /\ map[i].start = a)
                <=> (used(lookup(map, a)) /\ lookup(map, a).start = a)

\* C18: for a candidate of size > 0 on a reachable table that holds only regions
\* of size > 0, add_region returns -1 only if the candidate intersects no
\* occupied region and no slot is free; on a full table a candidate that
\* intersects an occupied region gets -2.
C18_ConflictBeforeCapacity ==
    \A r \in Regions :
        (used(r) /\ NoStaleSlot(map)) =>
            /\ add_region(map, r).id = -1 =>
                   /\ Occupied(map) = Slots
                   /\ \A i \in Slots : ~RangesIntersect(map[i], r)
            /\ (Occupied(map) = Slots /\ \E i \in Slots : RangesIntersect(map[i], r))
                   => add_region(map, r).id = -2

\* C19: for every occupied region a of a reachable table and every region b of
\* size > 0, a.intersects(b) is true exactly when their byte ranges share an
\* address, intersects is symmetric, a intersects itself, and an empty slot
\* intersects no region.
C19_IntersectsIsOverlap ==
    /\ \A i \in Slots, b \in Regions :
           (used(map[i]) /\ used(b)) =>
               /\ intersects(map[i], b) <=> RangesIntersect(map[i], b)
               /\ intersects(map[i], b) <=> intersects(b, map[i])
               /\ intersects(map[i], map[i])
    /\ \A b \in Regions : ~intersects(EmptyRegion, b) /\ ~intersects(b, EmptyRegion)

(***************************************************************************)
(* Properties of Expanding_ram_session_client::alloc                       *)
(***************************************************************************)
IsAlloc(e) == e.ev = "alloc"
IsUpgrade(e) == e.ev = "upgrade"
Attempts(t) == SelectSeq(log[t], IsAlloc)
Upgrades(t) == SelectSeq(log[t], IsUpgrade)
AllExhausted(t) ==
    /\ Len(Attempts(t)) > 0
    /\ \A k \in 1..Len(Attempts(t)) : Attempts(t)[k].reply = OutOfMetadata

\* C2: a call whose every allocation attempt was answered Out_of_metadata makes
\* at most two attempts and one upgrade request, and has returned only after
\* exactly two attempts and one upgrade, with a failure.
C2_QuotaRetryBound ==
    \A t \in Threads :
        AllExhausted(t) =>
            /\ Len(Attempts(t)) <= 2
            /\ Len(Upgrades(t)) <= 1
            /\ pc[t] = "done" =>
                   /\ Len(Attempts(t)) = 2
                   /\ Len(Upgrades(t)) = 1
                   /\ result[t] # NoResult
                   /\ ~(result[t].kind = "cap" /\ result[t].cap \in RamCaps)

\* C3: every call of alloc eventually returns to its caller.
C3_AllocTerminates ==
    \A t \in Threads : (pc[t] # "idle") ~> (pc[t] = "done")

\* C4: a call whose first attempt was answered Out_of_metadata and whose second
\* attempt succeeded has made exactly one upgrade request and two attempts, and
\* has returned the capability of the second attempt.
C4_TransparentRecovery ==
    \A t \in Threads :
        (/\ Len(Attempts(t)) >= 2
         /\ Attempts(t)[1].reply = OutOfMetadata
         /\ Attempts(t)[2].reply = "ok")
            => /\ log[t] = <<Attempts(t)[1], UpgradeEvent, Attempts(t)[2]>>
               /\ pc[t] = "done"
               /\ result[t] = [kind |-> "cap", cap |-> Attempts(t)[2].cap, what |-> "none"]

\* C4 witness: a call has returned after Out_of_metadata, upgrade, success.
C4_Witness ==
    \E t \in Threads, c \in RamCaps :
        /\ pc[t] = "done"
        /\ log[t] = <<AllocEvent(OutOfMetadata, InvalidCap), UpgradeEvent, AllocEvent("ok", c)>>
        /\ result[t].cap = c

\* C5: an attempt answered with a failure other than Out_of_metadata is the last
\* request of its call (no upgrade, no further attempt), and the call has left
\* alloc with that failure.
C5_OtherFailurePropagates ==
    \A t \in Threads : \A k \in 1..Len(log[t]) :
        (IsAlloc(log[t][k]) /\ log[t][k].reply = QuotaExceeded)
            => /\ k = Len(log[t])
               /\ pc[t] = "done"
               /\ result[t] = [kind |-> "exception", cap |-> InvalidCap, what |-> QuotaExceeded]

\* C5 witness: a call has left alloc with the failure of its second attempt.
C5_Witness ==
    \E t \in Threads :
        /\ pc[t] = "done"
        /\ result[t].kind = "exception"
        /\ log[t] = <<AllocEvent(OutOfMetadata, InvalidCap), UpgradeEvent,
                      AllocEvent(QuotaExceeded, InvalidCap)>>

\* Requests of a call alternate: attempt, upgrade, attempt, upgrade, ...
Alternates(l) ==
    \A k \in 1..Len(l) : IF k % 2 = 1 THEN IsAlloc(l[k]) ELSE IsUpgrade(l[k])
Exhausted(t) == SelectSeq(Attempts(t), LAMBDA e : e.reply = OutOfMetadata)

\* C17: with several threads inside alloc at once, each call's try_again and
\* requests follow from the replies to its own attempts alone: its requests
\* alternate attempt / upgrade, one upgrade per exhausted attempt (the one for
\* the latest exhausted attempt possibly still to come), and its try_again is
\* set exactly between its own upgrade and its own next loop iteration.
C17_PerCallRetryGuard ==
    \A t \in Threads :
        /\ pc[t] = "while" => try_again[t]
        /\ pc[t] \in {"try", "catch", "upgrade"} => ~try_again[t]
        /\ Len(log[t]) < MaxLog =>
               /\ Alternates(log[t])
               /\ Len(Upgrades(t)) =
                      IF pc[t] \in {"catch", "upgrade"}
                      THEN Len(Exhausted(t)) - 1 ELSE Len(Exhausted(t))
               /\ Len(Attempts(t)) =
                      IF pc[t] \in {"catch", "upgrade", "done"}
                      THEN Len(Upgrades(t)) + 1 ELSE Len(Upgrades(t))

\* C17 witness: one thread has upgraded and waits at the loop condition with
\* its flag set while another thread, after an upgrade of its own, has cleared
\* its flag and is about to retry.
C17_Witness ==
    \E t, u \in Threads :
        /\ t # u
        /\ pc[t] = "while" /\ try_again[t]
        /\ pc[u] = "try" /\ ~try_again[u] /\ Len(Upgrades(u)) >= 1

\* C20: within a call every upgrade request directly follows an attempt of that
\* call answered Out_of_metadata and is directly followed by a further attempt
\* (which is still to come only while the call is between the upgrade and the
\* retry); a call whose first attempt succeeded has issued no upgrade; upgrades
\* never outnumber exhausted attempts.
C20_UpgradeOrdering ==
    \A t \in Threads :
        /\ \A k \in 1..Len(log[t]) :
               IsUpgrade(log[t][k]) =>
                   /\ k > 1
                   /\ IsAlloc(log[t][k - 1]) /\ log[t][k - 1].reply = OutOfMetadata
                   /\ k < Len(log[t]) => IsAlloc(log[t][k + 1])
                   /\ (k = Len(log[t]) /\ k < MaxLog)
                          => pc[t] \in {"while", "loop_top", "try"}
        /\ (Len(Attempts(t)) >= 1 /\ Attempts(t)[1].reply = "ok")
               => Len(Upgrades(t)) = 0
        /\ Len(Upgrades(t)) <= Len(Exhausted(t))

\* C20 witness: a call has issued two upgrades and three attempts.
C20_Witness ==
    \E t \in Threads : Len(Upgrades(t)) = 2 /\ Len(Attempts(t)) = 3

(***************************************************************************)
(* Properties of Platform_env::Local_parent                                *)
(***************************************************************************)
\* C11: a session request naming the local RM service is answered with a new
\* local nested RM session of the requested size and the real parent is never
\* called for it; a request naming any other service is forwarded exactly
\* once, with the same service name and arguments, and the caller gets exactly
\* what the parent answered.
C11_RouterLocality ==
    /\ (router.op = "session" /\ router.name = RmService) => parent.calls = 0
    /\ (router.state = "idle" /\ router.op = "session") =>
           IF router.name = RmService
           THEN /\ router.reply.kind = "cap"
                /\ \E s \in sessions :
                       /\ s.cap = router.reply.cap
                       /\ s.sub_rm
                       /\ s.size = ArgSize(router.args)
           ELSE /\ parent.calls = 1
                /\ parent.op = "session"
                /\ parent.name = router.name
                /\ parent.args = router.args
                /\ router.reply = parent.reply

\* C11 witness: with a local RM session open, a request for another service
\* with non-empty arguments has been answered with the parent's error.
C11_Witness ==
    /\ router.state = "idle" /\ router.op = "session"
    /\ router.name # RmService /\ router.args # ""
    /\ router.reply.kind = "exception"
    /\ sessions # {}

(***************************************************************************)
(* Properties of the nested Rm_session_mmap                                *)
(***************************************************************************)
\* C12: when the nested session of size C is reserved in the root at B (the
\* root table holds exactly one region for it, starting at B), a successful
\* attach inside it at local offset O returns B + O and leaves the root table
\* with exactly that one region for it, of size C starting at B.
C12_NestingTranslation ==
    (rm.op = "sub_attach" /\ rm.pre >= 0 /\ rm.addr # AttachError) =>
        /\ rm.addr = rm.pre + rm.off
        /\ Cardinality(SubRegions(map)) = 1
        /\ \A i \in SubRegions(map) :
               map[i].start = rm.pre /\ map[i].size = sub.size

\* C13: during the lifetime of a nested session, attaching it to the root
\* succeeds at most once, whatever address it was attached at.
C13_AttachAtMostOnce ==
    sub.alive => sub.attaches <= 1

\* C14: destroying a nested session that is reserved in the root at B issues
\* exactly one detach, of B, and leaves no region of it in the root table;
\* destroying a nested session that was never attached, or a root session,
\* issues no detach.
C14_DestructionReleases ==
    /\ rm.op = "destroy" =>
           /\ rm.pre >= 0 =>
                  /\ rm.detached = <<rm.pre>>
                  /\ SubRegions(map) = {}
           /\ rm.pre = NeverAttached => rm.detached = <<>>
    /\ \A b \in Addrs : destructor_detaches(FALSE, b) = <<>>

(***************************************************************************)
(* Properties of concurrent attach and detach on one Rm_session_mmap       *)
(***************************************************************************)
InTable == {"scan", "store", "unlock"}

\* C16: with several threads inside attach / detach of one session, at most
\* one thread is between the scan and the store of the table at any time, two
\* attach calls in progress at the same time whose fixed ranges share a byte
\* have not both succeeded (their regions are not both in the table), and the
\* occupied regions of the table are pairwise disjoint.
C16_LinearizedMutation ==
    /\ \A t, u \in Threads :
           (t # u /\ conc[t].pc \in InTable) => conc[u].pc \notin InTable
    /\ \A t, u \in Threads :
           (/\ t # u
            /\ conc[t].pc = "done" /\ conc[t].op = "attach" /\ conc[t].id >= 0
            /\ conc[u].pc = "done" /\ conc[u].op = "attach" /\ conc[u].id >= 0
            /\ conc[t].id # conc[u].id
            /\ map[conc[t].id] = conc[t].region
            /\ map[conc[u].id] = conc[u].region)
               => ~RangesIntersect(conc[t].region, conc[u].region)
    /\ \A i, j \in Slots :
           (i # j /\ used(map[i]) /\ used(map[j]))
               => Bytes(map[i]) \cap Bytes(map[j]) = {}

=============================================================================
